---- MODULE Spec2Model ----
(***************************************************************************)
(* Model of the tool registry, the dispatcher call_tool and the two text   *)
(* formatters of backend/mcp_server/tools.py, and of the transport         *)
(* handler _call_tool of backend/mcp_server/server.py.                     *)
(*                                                                         *)
(* Notation.  Python str values are TLA+ strings.  Four non-ASCII          *)
(* characters of the source's templates cannot be written in a TLA+ string *)
(* and are spelled by the definitions Rupee, EnDash, EmDash and BoxRule.   *)
(* Python numbers are exact rationals num/den with den > 0.  An optional   *)
(* attribute is a record whose field `has` says whether it is present      *)
(* (has = FALSE is Python's None).                                         *)
(***************************************************************************)
EXTENDS Integers, Sequences, FiniteSets, TLC

VARIABLES TOOLS, _market, calls

vars == <<TOOLS, _market, calls>>

\* ------------------------------------------------------------------------
\* Python values

Rupee == "Rs"
EnDash == "-"
EmDash == "--"
BoxRule == "--"

NoStr == [has |-> FALSE, s |-> ""]
Str(x) == [has |-> TRUE, s |-> x]

NoNum == [has |-> FALSE, num |-> 0, den |-> 1]
Num(n, d) == [has |-> TRUE, num |-> n, den |-> d]
Zero == Num(0, 1)

\* bool(x) of an optional number: None and 0 are false
NumTruthy(x) == x.has /\ x.num # 0

\* bool(x) of an optional string: None and "" are false
StrTruthy(x) == x.has /\ x.s # ""

\* str(x) as an f-string renders an optional string
PyStr(x) == IF x.has THEN x.s ELSE "None"

Min(a, b) == IF a <= b THEN a ELSE b

\* s[:n]
Prefix(s, n) == SubSeq(s, 1, Min(n, Len(s)))

Whitespace == {" ", "\t", "\n", "\r"}

RECURSIVE LStrip(_)
LStrip(s) ==
    IF Len(s) > 0 /\ SubSeq(s, 1, 1) \in Whitespace
    THEN LStrip(SubSeq(s, 2, Len(s)))
    ELSE s

RECURSIVE RStrip(_)
RStrip(s) ==
    IF Len(s) > 0 /\ SubSeq(s, Len(s), Len(s)) \in Whitespace
    THEN RStrip(SubSeq(s, 1, Len(s) - 1))
    ELSE s

\* str.strip()
Strip(s) == RStrip(LStrip(s))

Lower == <<"a", "b", "c", "d", "e", "f", "g", "h", "i", "j", "k", "l", "m",
           "n", "o", "p", "q", "r", "s", "t", "u", "v", "w", "x", "y", "z">>
Capital == <<"A", "B", "C", "D", "E", "F", "G", "H", "I", "J", "K", "L", "M",
             "N", "O", "P", "Q", "R", "S", "T", "U", "V", "W", "X", "Y", "Z">>

UpperChar(c) ==
    IF \E i \in 1..Len(Lower) : Lower[i] = c
    THEN Capital[CHOOSE i \in 1..Len(Lower) : Lower[i] = c]
    ELSE c

RECURSIVE Upper(_)
\* str.upper()
Upper(s) ==
    IF Len(s) = 0 THEN ""
    ELSE UpperChar(SubSeq(s, 1, 1)) \o Upper(SubSeq(s, 2, Len(s)))

RECURSIVE Join(_, _)
\* sep.join(parts)
Join(parts, sep) ==
    IF Len(parts) = 0 THEN ""
    ELSE IF Len(parts) = 1 THEN parts[1]
    ELSE parts[1] \o sep \o Join(Tail(parts), sep)

RECURSIVE Repeat(_, _)
\* s * n
Repeat(s, n) == IF n <= 0 THEN "" ELSE s \o Repeat(s, n - 1)

Digit == <<"0", "1", "2", "3", "4", "5", "6", "7", "8", "9">>

RECURSIVE Digits(_)
\* the decimal digits of a natural number
Digits(n) == IF n < 10 THEN Digit[n + 1] ELSE Digits(n \div 10) \o Digit[(n % 10) + 1]

RECURSIVE Grouped(_)
\* the decimal digits of a natural number with "," between groups of three
Grouped(n) ==
    IF n < 1000 THEN Digits(n)
    ELSE LET low == n % 1000
         IN Grouped(n \div 1000) \o "," \o Repeat("0", 3 - Len(Digits(low))) \o Digits(low)

RECURSIVE Pow10(_)
Pow10(d) == IF d = 0 THEN 1 ELSE 10 * Pow10(d - 1)

Abs(n) == IF n < 0 THEN -n ELSE n

\* round(n / d) to the nearest integer, ties to even, for n >= 0 and d > 0
RoundDiv(n, d) ==
    LET q == n \div d
        r == n % d
    IN IF 2 * r < d THEN q
       ELSE IF 2 * r > d THEN q + 1
       ELSE IF q % 2 = 0 THEN q ELSE q + 1

\* format(x, ".<dec>f") and, with comma, format(x, ",.<dec>f") of num/den
FormatFixed(num, den, dec, comma) ==
    LET scaled == RoundDiv(Abs(num) * Pow10(dec), den)
        whole == scaled \div Pow10(dec)
        frac == scaled % Pow10(dec)
        sign == IF num < 0 THEN "-" ELSE ""
        int == IF comma THEN Grouped(whole) ELSE Digits(whole)
    IN IF dec = 0 THEN sign \o int
       ELSE sign \o int \o "." \o Repeat("0", dec - Len(Digits(frac))) \o Digits(frac)

\* f"{x:,.2f}", f"{x:.2f}", f"{x:.1f}" of a present number
F2c(x) == FormatFixed(x.num, x.den, 2, TRUE)
F2(x) == FormatFixed(x.num, x.den, 2, FALSE)
F1(x) == FormatFixed(x.num, x.den, 1, FALSE)

\* f"{n:,}" and f"{n}" of a present int
IntGrouped(x) == (IF x.num < 0 THEN "-" ELSE "") \o Grouped(Abs(x.num))
IntStr(x) == (IF x.num < 0 THEN "-" ELSE "") \o Digits(Abs(x.num))


\* ------------------------------------------------------------------------
\* Outcome of a call: a returned str, or a raised exception with its message

Return(text) == [kind |-> "return", exc |-> "", text |-> text]
Raise(exc, msg) == [kind |-> "raise", exc |-> exc, text |-> msg]
Pending == [kind |-> "none", exc |-> "", text |-> ""]

\* ------------------------------------------------------------------------
\* Formatters

\* a sequence holding `line` when `cond` holds: `if cond: lines.append(line)`
When(cond, line) == IF cond THEN <<line>> ELSE <<>>

\* f"[Source: Yahoo Finance  |  As of: {r.timestamp[:19]}]"
Footer(r) == "[Source: Yahoo Finance  |  As of: " \o Prefix(r.timestamp.s, 19) \o "]"

\* name = r.company_name or r.symbol, as rendered by an f-string
DisplayName(r) == IF StrTruthy(r.company_name) THEN r.company_name.s ELSE PyStr(r.symbol)

change_str(r) ==
    IF r.change.has /\ r.change_pct.has
    THEN LET sign == IF r.change.num >= 0 THEN "+" ELSE ""
         IN "  |  Change: " \o sign \o Rupee \o F2(r.change)
            \o " (" \o sign \o F2(r.change_pct) \o "%)"
    ELSE ""

prev(r) ==
    IF NumTruthy(r.prev_close) THEN "  |  Prev Close: " \o Rupee \o F2c(r.prev_close) ELSE ""

\* parts with `is not None` tests in place of the truthiness tests
parts_is_not_none(r) ==
    When(r.volume.has, "Volume: " \o IntGrouped(r.volume))
    \o When(r.ma_50.has, "MA50: " \o Rupee \o F2c(r.ma_50))
    \o When(r.ma_200.has, "MA200: " \o Rupee \o F2c(r.ma_200))

\* parts of the combined volume / moving-average line
parts(r) ==
    When(NumTruthy(r.volume), "Volume: " \o IntGrouped(r.volume))
    \o When(NumTruthy(r.ma_50), "MA50: " \o Rupee \o F2c(r.ma_50))
    \o When(NumTruthy(r.ma_200), "MA200: " \o Rupee \o F2c(r.ma_200))

\* the list `lines` of _fmt_price before the footer is appended
lines(r) ==
    <<PyStr(r.symbol) \o " (" \o DisplayName(r) \o ") | NSE">>
    \o When(r.price.has, "Price: " \o Rupee \o F2c(r.price) \o change_str(r))
    \o When(r.day_low.has /\ r.day_high.has,
            "Day Range: " \o Rupee \o F2c(r.day_low) \o " " \o EnDash \o " "
            \o Rupee \o F2c(r.day_high) \o prev(r))
    \o When(r.week_52_low.has /\ r.week_52_high.has,
            "52W Range: " \o Rupee \o F2c(r.week_52_low) \o " " \o EnDash \o " "
            \o Rupee \o F2c(r.week_52_high))
    \o When(parts(r) # <<>>, Join(parts(r), "  |  "))

\* _fmt_price(r); slicing a timestamp of None raises TypeError
_fmt_price(r) ==
    IF ~r.timestamp.has
    THEN Raise("TypeError", "'NoneType' object is not subscriptable")
    ELSE Return(Join(lines(r) \o <<Footer(r)>>, "\n"))

\* the list `fund` of _fmt_analysis
fund(r) ==
    When(NumTruthy(r.market_cap),
         "Market Cap: " \o Rupee
         \o FormatFixed(r.market_cap.num, r.market_cap.den * 10000000, 0, TRUE) \o " Cr")
    \o When(NumTruthy(r.pe_ratio), "P/E (TTM): " \o F1(r.pe_ratio))
    \o When(NumTruthy(r.forward_pe), "Forward P/E: " \o F1(r.forward_pe))
    \o When(NumTruthy(r.eps), "EPS (TTM): " \o Rupee \o F2(r.eps))
    \o When(NumTruthy(r.book_value), "Book Value: " \o Rupee \o F2(r.book_value))
    \o When(NumTruthy(r.price_to_book), "P/B Ratio: " \o F2(r.price_to_book) \o "x")
    \o When(NumTruthy(r.dividend_yield),
            "Dividend Yield: "
            \o FormatFixed(r.dividend_yield.num * 100, r.dividend_yield.den, 2, FALSE) \o "%")
    \o When(NumTruthy(r.beta), "Beta: " \o F2(r.beta))
    \o When(NumTruthy(r.roe),
            "ROE: " \o FormatFixed(r.roe.num * 100, r.roe.den, 1, FALSE) \o "%")
    \o When(NumTruthy(r.profit_margin),
            "Net Margin: "
            \o FormatFixed(r.profit_margin.num * 100, r.profit_margin.den, 1, FALSE) \o "%")
    \o When(NumTruthy(r.debt_to_equity), "D/E Ratio: " \o F2(r.debt_to_equity))
    \o When(NumTruthy(r.current_ratio), "Current Ratio: " \o F2(r.current_ratio))

\* formatting a price target of None with ",.2f" raises TypeError
AnalystRaises(r) ==
    NumTruthy(r.target_mean_price) /\ (~r.target_high_price.has \/ ~r.target_low_price.has)

\* the list `analyst` of _fmt_analysis, where it does not raise
analyst(r) ==
    When(StrTruthy(r.recommendation),
         "Consensus: " \o Upper(r.recommendation.s)
         \o (IF NumTruthy(r.analyst_count)
             THEN " (" \o IntStr(r.analyst_count) \o " analysts)" ELSE ""))
    \o When(NumTruthy(r.target_mean_price),
            "Price Targets:  Mean " \o Rupee \o F2c(r.target_mean_price)
            \o "  |  High " \o Rupee \o F2c(r.target_high_price)
            \o "  |  Low " \o Rupee \o F2c(r.target_low_price))

\* the number of news items rendered: r.news[:5]
NewsLimit == 5

\* the two lines of the i-th rendered news item
NewsEntry(i, item) ==
    LET pub_date == IF StrTruthy(item.published_at)
                    THEN Prefix(item.published_at.s, 10) ELSE "N/A"
    IN <<Digits(i) \o ". " \o PyStr(item.title),
         "   " \o PyStr(item.publisher) \o "  |  " \o pub_date \o "  |  " \o PyStr(item.link)>>

RECURSIVE NewsEntries(_, _)
\* the lines appended by `for i, item in enumerate(items, 1)` from index i on
NewsEntries(items, i) ==
    IF i > Len(items) THEN <<>>
    ELSE NewsEntry(i, items[i]) \o NewsEntries(items, i + 1)

NewsLines(r) ==
    IF r.news.has /\ Len(r.news.items) > 0
    THEN <<"\n" \o BoxRule \o " RECENT NEWS " \o BoxRule>>
         \o NewsEntries(SubSeq(r.news.items, 1, Min(NewsLimit, Len(r.news.items))), 1)
    ELSE <<>>

\* the list `sections` of _fmt_analysis, where nothing raises
sections(r) ==
    <<Repeat("=", 60), PyStr(r.symbol) \o "  " \o EmDash \o "  " \o DisplayName(r),
      Repeat("=", 60)>>
    \o When(StrTruthy(r.sector) \/ StrTruthy(r.industry),
            "Sector: " \o (IF StrTruthy(r.sector) THEN r.sector.s ELSE "N/A")
            \o "  |  Industry: " \o (IF StrTruthy(r.industry) THEN r.industry.s ELSE "N/A"))
    \o When(StrTruthy(r.description), "\nBusiness: " \o Strip(r.description.s))
    \o <<"\n" \o BoxRule \o " PRICE " \o BoxRule, _fmt_price(r).text>>
    \o When(fund(r) # <<>>, "\n" \o BoxRule \o " FUNDAMENTALS " \o BoxRule)
    \o fund(r)
    \o When(analyst(r) # <<>>, "\n" \o BoxRule \o " ANALYST VIEW " \o BoxRule)
    \o analyst(r)
    \o NewsLines(r)
    \o <<"\n" \o Footer(r)>>

\* _fmt_analysis(r): the embedded _fmt_price raises first, then the price targets
_fmt_analysis(r) ==
    IF _fmt_price(r).kind = "raise" THEN _fmt_price(r)
    ELSE IF AnalystRaises(r)
    THEN Raise("TypeError", "unsupported format string passed to NoneType.__format__")
    ELSE Return(Join(sections(r), "\n"))

\* ------------------------------------------------------------------------
\* Tool registry

\* TOOLS: the descriptors in registry order (descriptions elided)
ToolRegistry ==
    <<[name |-> "get_stock_price",
       inputSchema |-> [type |-> "object", properties |-> <<"symbol">>, required |-> <<"symbol">>]],
      [name |-> "get_stock_analysis",
       inputSchema |-> [type |-> "object", properties |-> <<"symbol">>, required |-> <<"symbol">>]],
      [name |-> "scrape_url",
       inputSchema |-> [type |-> "object", properties |-> <<"url">>, required |-> <<"url">>]]>>

\* _market = MarketScraper(): the one handle every dispatch uses
MarketHandle == [class |-> "MarketScraper"]

\* ------------------------------------------------------------------------
\* Dispatcher

\* values a key of the argument mapping can hold: no entry, None, a str, or
\* a value that is not a str (an int stands for these)
Missing == [kind |-> "missing", s |-> "", n |-> 0]
Null == [kind |-> "null", s |-> "", n |-> 0]
StrArg(x) == [kind |-> "str", s |-> x, n |-> 0]
IntArg(k) == [kind |-> "int", s |-> "", n |-> k]

\* `(arguments.get(key) or "")` is not a str: calling .strip() on it raises
ArgRaises(a) == a.kind = "int" /\ a.n # 0

\* `(arguments.get(key) or "")` where it is a str
OrEmpty(a) == IF a.kind = "str" THEN a.s ELSE ""

\* SymbolOf without .strip()
SymbolOfUnstripped(arguments) == Upper(OrEmpty(arguments.symbol))

\* SymbolOf without .upper()
SymbolOfAsTyped(arguments) == Strip(OrEmpty(arguments.symbol))

\* (arguments.get("symbol") or "").strip().upper()
SymbolOf(arguments) == Upper(Strip(OrEmpty(arguments.symbol)))

\* UrlOf normalised the way a symbol is
UrlOfUpper(arguments) == Upper(Strip(OrEmpty(arguments.url)))

\* (arguments.get("url") or "").strip()
UrlOf(arguments) == Strip(OrEmpty(arguments.url))

SymbolRequired == "Error: 'symbol' parameter is required."
UrlRequired == "Error: 'url' parameter is required."

\* PriceFailure naming the symbol of the result, not the one asked for
PriceFailureOfResult(symbol, result) ==
    "Could not fetch price for " \o PyStr(result.symbol) \o ": " \o PyStr(result.error)

PriceFailure(symbol, result) ==
    "Could not fetch price for " \o symbol \o ": " \o PyStr(result.error)

\* AnalysisFailure with the wording of the price tool
AnalysisFailureAsPrice(symbol, result) ==
    "Could not fetch price for " \o symbol \o ": " \o PyStr(result.error)

AnalysisFailure(symbol, result) ==
    "Could not fetch analysis for " \o symbol \o ": " \o PyStr(result.error)

\* AvailableNames in reverse registry order
AvailableNamesReversed(tools) == [i \in 1..Len(tools) |-> tools[Len(tools) + 1 - i].name]

\* available = [t.name for t in TOOLS]
AvailableNames(tools) == [i \in 1..Len(tools) |-> tools[i].name]

\* an f-string renders a list of str as its repr
PyListRepr(names) ==
    "[" \o Join([i \in 1..Len(names) |-> "'" \o names[i] \o "'"], ", ") \o "]"

UnknownTool(name, tools) ==
    Raise("ValueError",
          "Unknown tool: '" \o name \o "'. Available tools: "
          \o PyListRepr(AvailableNames(tools)))

NoStrStrip == Raise("AttributeError", "'int' object has no attribute 'strip'")

\* _call_tool of the server wraps a returned text; a raised error propagates
_call_tool(outcome) ==
    IF outcome.kind = "return" THEN <<[type |-> "text", text |-> outcome.text]>> ELSE <<>>

\* one invocation of call_tool: its position, its locals, the collaborator
\* calls it has made, what the collaborator handed back, and how it ended
Idle ==
    [pc |-> "idle", name |-> "", arguments |-> [symbol |-> Missing, url |-> Missing],
     symbol |-> "", url |-> "", invoked |-> <<>>, result |-> <<>>, scraped |-> <<>>,
     outcome |-> Pending, response |-> <<>>]

Finish(call, outcome) ==
    [call EXCEPT !.pc = "done", !.outcome = outcome, !.response = _call_tool(outcome)]

\* the two market branches up to `await _market.scrape_one(...)`
MarketStart(call, news, fundamentals) ==
    IF ArgRaises(call.arguments.symbol) THEN Finish(call, NoStrStrip)
    ELSE LET symbol == SymbolOf(call.arguments)
         IN IF symbol = ""
            THEN Finish([call EXCEPT !.symbol = symbol], Return(SymbolRequired))
            ELSE [call EXCEPT !.symbol = symbol, !.pc = "await_market",
                              !.invoked = Append(@, [fn |-> "scrape_one", arg |-> symbol,
                                                     include_news |-> news,
                                                     include_fundamentals |-> fundamentals])]

\* the scrape_url branch up to `await _scrape_url(url)`
ScrapeStart(call) ==
    IF ArgRaises(call.arguments.url) THEN Finish(call, NoStrStrip)
    ELSE LET url == UrlOf(call.arguments)
         IN IF url = ""
            THEN Finish([call EXCEPT !.url = url], Return(UrlRequired))
            ELSE [call EXCEPT !.url = url, !.pc = "await_scrape",
                              !.invoked = Append(@, [fn |-> "scrape_url", arg |-> url,
                                                     include_news |-> FALSE,
                                                     include_fundamentals |-> FALSE])]

\* call_tool(name, arguments) up to its first await, or to its end
call_tool(name, arguments, tools) ==
    LET call == [Idle EXCEPT !.name = name, !.arguments = arguments]
    IN IF name = "get_stock_price" THEN MarketStart(call, FALSE, FALSE)
       ELSE IF name = "get_stock_analysis" THEN MarketStart(call, TRUE, TRUE)
       ELSE IF name = "scrape_url" THEN ScrapeStart(call)
       ELSE Finish(call, UnknownTool(name, tools))

\* call_tool from the return of scrape_one to its end
MarketResume(call, result) ==
    LET outcome ==
            IF call.name = "get_stock_price"
            THEN IF ~result.scraped_ok THEN Return(PriceFailure(call.symbol, result))
                 ELSE _fmt_price(result)
            ELSE IF ~result.scraped_ok THEN Return(AnalysisFailure(call.symbol, result))
                 ELSE _fmt_analysis(result)
    IN Finish([call EXCEPT !.result = <<result>>], outcome)

\* call_tool from the return of _scrape_url to its end
ScrapeResume(call, text) == Finish([call EXCEPT !.scraped = <<text>>], Return(text))

\* ------------------------------------------------------------------------
\* Inputs: tool names, argument mappings and collaborator results

\* the longest news list a result carries
MaxNews == 6

\* the number of dispatches that can be in flight together
NCalls == 2

RegisteredNames == {ToolRegistry[i].name : i \in 1..Len(ToolRegistry)}

OtherNames == {"get_stock_news", "GET_STOCK_PRICE", "scrape_url ", ""}

ToolNames == RegisteredNames \cup OtherNames

SymbolArgs ==
    {Missing, Null, StrArg(""), StrArg("   "), StrArg(" \t\n"), StrArg(" tcs "),
     StrArg("TCS"), StrArg("Reliance"), StrArg("\tinfy\n"), StrArg("m&m"),
     IntArg(0), IntArg(7)}

UrlArgs ==
    {Missing, Null, StrArg(""), StrArg("  "), StrArg("\n\t "),
     StrArg(" https://Example.com/News?id=1 "), StrArg("https://example.com"),
     StrArg("not a url"), IntArg(0), IntArg(7)}

Arguments ==
    {[symbol |-> a, url |-> Missing] : a \in SymbolArgs}
    \cup {[symbol |-> Missing, url |-> u] : u \in UrlArgs}
    \cup {[symbol |-> StrArg(" tcs "), url |-> StrArg(" https://Example.com/News?id=1 ")]}

NoNews == [has |-> FALSE, items |-> <<>>]
News(items) == [has |-> TRUE, items |-> items]

NewsPool ==
    <<[title |-> Str("TCS wins ten-year deal"), publisher |-> Str("Reuters"),
       published_at |-> Str("2024-04-30T08:15:00Z"), link |-> Str("https://news.example/1")],
      [title |-> Str("Q4 results beat estimates"), publisher |-> Str("Mint"),
       published_at |-> NoStr, link |-> Str("https://news.example/2")],
      [title |-> Str("Board approves buyback"), publisher |-> NoStr,
       published_at |-> Str(""), link |-> Str("https://news.example/3")],
      [title |-> Str("Attrition falls"), publisher |-> Str("ET"),
       published_at |-> Str("2024-04"), link |-> NoStr]>>

\* lists of 0..MaxNews items, each a stretch of the pool taken round-robin
NewsLists ==
    {[i \in 1..n |-> NewsPool[((i + k) % Len(NewsPool)) + 1]] :
        n \in 0..MaxNews, k \in 0..(Len(NewsPool) - 1)}

\* a result with every attribute present (the collaborator stamps every
\* result, so `timestamp` is a str in each result below)
FullResult ==
    [symbol |-> Str("TCS"), company_name |-> Str("Tata Consultancy Services Limited"),
     sector |-> Str("Technology"), industry |-> Str("Information Technology Services"),
     description |-> Str(" Global IT services and consulting. "),
     price |-> Num(350000, 100), change |-> Num(25, 2), change_pct |-> Num(36, 100),
     day_low |-> Num(348010, 100), day_high |-> Num(352055, 100),
     prev_close |-> Num(34875, 10), week_52_low |-> Num(3000, 1),
     week_52_high |-> Num(420075, 100), volume |-> Num(1234567, 1),
     ma_50 |-> Num(345025, 100), ma_200 |-> Num(3300, 1),
     market_cap |-> Num(1234567890, 1), pe_ratio |-> Num(2844, 100),
     forward_pe |-> Num(251, 10), eps |-> Num(12305, 100), book_value |-> Num(2505, 10),
     price_to_book |-> Num(1397, 100), dividend_yield |-> Num(125, 10000),
     beta |-> Num(85, 100), roe |-> Num(4512, 10000), profit_margin |-> Num(1934, 10000),
     debt_to_equity |-> Num(8, 100), current_ratio |-> Num(5, 2),
     recommendation |-> Str("buy"), analyst_count |-> Num(40, 1),
     target_mean_price |-> Num(3900, 1), target_high_price |-> Num(4500, 1),
     target_low_price |-> Num(32005, 10),
     news |-> News(SubSeq(NewsPool, 1, 2)),
     scraped_ok |-> TRUE, error |-> NoStr,
     timestamp |-> Str("2024-05-01T10:11:12.123456+05:30")]

NumFields ==
    {"price", "change", "change_pct", "day_low", "day_high", "prev_close", "week_52_low",
     "week_52_high", "volume", "ma_50", "ma_200", "market_cap", "pe_ratio", "forward_pe",
     "eps", "book_value", "price_to_book", "dividend_yield", "beta", "roe",
     "profit_margin", "debt_to_equity", "current_ratio", "analyst_count",
     "target_mean_price", "target_high_price", "target_low_price"}

StrFields ==
    {"company_name", "sector", "industry", "description", "recommendation", "error",
     "timestamp"}

FundFields ==
    <<"market_cap", "pe_ratio", "forward_pe", "eps", "book_value", "price_to_book",
      "dividend_yield", "beta", "roe", "profit_margin", "debt_to_equity", "current_ratio">>

\* a result with nothing but its symbol and its timestamp
BareResult ==
    [f \in DOMAIN FullResult |->
        IF f \in NumFields THEN NoNum
        ELSE IF f \in StrFields \ {"timestamp"} THEN NoStr
        ELSE IF f = "news" THEN NoNews
        ELSE FullResult[f]]

\* a falling price
DownResult == [FullResult EXCEPT !.change = Num(-25, 2), !.change_pct = Num(-36, 100)]

Bases == {FullResult, BareResult}

\* every fundamentals attribute None or 0: the first k one way, the rest the other
FundPattern(b, k, first, rest) ==
    [f \in DOMAIN b |->
        IF \E i \in 1..Len(FundFields) : FundFields[i] = f
        THEN IF (CHOOSE i \in 1..Len(FundFields) : FundFields[i] = f) <= k
             THEN first ELSE rest
        ELSE b[f]]

FailedResults ==
    {[b EXCEPT !.scraped_ok = FALSE, !.error = Str(e)] :
        b \in Bases, e \in {"rate limited", "No data found, symbol may be delisted"}}

\* one attribute None, 0 (or ""), or present
NumVariants(b, f) == {[b EXCEPT ![f] = v] : v \in {NoNum, Zero, FullResult[f]}}
StrVariants(b, f) == {[b EXCEPT ![f] = v] : v \in {NoStr, Str(""), FullResult[f]}}

MarketResults ==
    Bases \cup {DownResult} \cup FailedResults
    \cup UNION {NumVariants(b, f) : b \in Bases, f \in NumFields}
    \cup UNION {StrVariants(b, f) : b \in Bases, f \in (StrFields \ {"timestamp"}) \cup {"symbol"}}
    \cup {[b EXCEPT !.timestamp = Str(t)] : b \in Bases, t \in {"", "2024-05-01"}}
    \cup {[b EXCEPT !.volume = v, !.ma_50 = m, !.ma_200 = n] :
            b \in Bases, v \in {NoNum, Zero, FullResult.volume},
            m \in {NoNum, Zero, FullResult.ma_50}, n \in {NoNum, Zero, FullResult.ma_200}}
    \cup {FundPattern(b, k, NoNum, Zero) : b \in Bases, k \in 0..Len(FundFields)}
    \cup {FundPattern(b, k, Zero, NoNum) : b \in Bases, k \in 0..Len(FundFields)}
    \cup {[b EXCEPT !.news = News(l)] : b \in Bases, l \in NewsLists}

ScrapedTexts ==
    {"Example Domain\nThis domain is for use in illustrative examples.",
     "Error: could not fetch URL (HTTP 404)", ""}

\* the inputs of the runs with several dispatches in flight
ConcurrentNames == RegisteredNames \cup {"get_stock_news"}

ConcurrentArguments ==
    {[symbol |-> StrArg(" tcs "), url |-> Missing],
     [symbol |-> StrArg("infy"), url |-> Missing],
     [symbol |-> Missing, url |-> StrArg(" https://example.com ")],
     [symbol |-> Missing, url |-> Missing]}

ConcurrentResults ==
    {BareResult, [FullResult EXCEPT !.symbol = Str("INFY")],
     [BareResult EXCEPT !.scraped_ok = FALSE, !.error = Str("rate limited")]}

ConcurrentTexts == {"Example Domain", "Error: timed out"}

\* ------------------------------------------------------------------------
\* State machine

CallIds == 1..NCalls

Init ==
    /\ TOOLS = ToolRegistry
    /\ _market = MarketHandle
    /\ calls = [c \in CallIds |-> Idle]

\* the server receives a tool call and runs call_tool to its first await
Dispatch(c, name, arguments) ==
    /\ calls[c].pc \in {"idle", "done"}
    /\ calls' = [calls EXCEPT ![c] = call_tool(name, arguments, TOOLS)]
    /\ UNCHANGED <<TOOLS, _market>>

\* MarketReturns with `symbol` a module-level name that every dispatch
\* assigns: the resumed call reads what the dispatch started last left there
MarketReturnsSharedSymbol(c, result) ==
    /\ calls[c].pc = "await_market"
    /\ \E d \in CallIds :
          calls' = [calls EXCEPT
                       ![c] = MarketResume([calls[c] EXCEPT !.symbol = calls[d].symbol], result)]
    /\ UNCHANGED <<TOOLS, _market>>

\* scrape_one returns and call_tool runs to its end
MarketReturns(c, result) ==
    /\ calls[c].pc = "await_market"
    /\ calls' = [calls EXCEPT ![c] = MarketResume(calls[c], result)]
    /\ UNCHANGED <<TOOLS, _market>>

\* _scrape_url returns and call_tool runs to its end
ScrapeReturns(c, text) ==
    /\ calls[c].pc = "await_scrape"
    /\ calls' = [calls EXCEPT ![c] = ScrapeResume(calls[c], text)]
    /\ UNCHANGED <<TOOLS, _market>>

\* one dispatch at a time, over the full range of inputs
Next ==
    \/ \E name \in ToolNames, arguments \in Arguments : Dispatch(1, name, arguments)
    \/ \E result \in MarketResults : MarketReturns(1, result)
    \/ \E text \in ScrapedTexts : ScrapeReturns(1, text)

Spec == Init /\ [][Next]_vars

\* up to NCalls dispatches in flight, suspended and resumed in any order
NextConcurrent ==
    \/ \E c \in CallIds, name \in ConcurrentNames, arguments \in ConcurrentArguments :
          Dispatch(c, name, arguments)
    \/ \E c \in CallIds, result \in ConcurrentResults : MarketReturns(c, result)
    \/ \E c \in CallIds, text \in ConcurrentTexts : ScrapeReturns(c, text)

SpecConcurrent == Init /\ [][NextConcurrent]_vars

\* ------------------------------------------------------------------------
\* Reading a call and a text

MarketTools == {"get_stock_price", "get_stock_analysis"}

\* every character of s is whitespace (so also s = "")
AllWhitespace(s) == \A i \in 1..Len(s) : SubSeq(s, i, i) \in Whitespace

\* the argument is absent, None, empty or whitespace-only
Blank(a) == a.kind \in {"missing", "null"} \/ (a.kind = "str" /\ AllWhitespace(a.s))

\* the argument is a str with something other than whitespace in it
NonBlank(a) == a.kind = "str" /\ ~AllWhitespace(a.s)

\* the positions of the line breaks of a text
Breaks(text) == {i \in 1..Len(text) : SubSeq(text, i, i) = "\n"}

RECURSIVE Ascending(_)
\* the numbers of a finite set in increasing order
Ascending(S) ==
    IF S = {} THEN <<>>
    ELSE LET least == CHOOSE x \in S : \A y \in S : x <= y
         IN <<least>> \o Ascending(S \ {least})

\* the lines between the cuts, cuts being the line breaks and the two ends
Between(text, cuts) ==
    [j \in 1..(Len(cuts) - 1) |-> SubSeq(text, cuts[j] + 1, cuts[j + 1] - 1)]

\* text.split("\n")
Lines(text) == Between(text, <<0>> \o Ascending(Breaks(text)) \o <<Len(text) + 1>>)

StartsWith(line, prefix) == Len(line) >= Len(prefix) /\ SubSeq(line, 1, Len(prefix)) = prefix

\* the lines of what a call returned; none when it raised or is still running
ReturnedLines(call) == IF call.outcome.kind = "return" THEN Lines(call.outcome.text) ELSE <<>>

HasLine(shown, line) == \E j \in 1..Len(shown) : shown[j] = line

HasLineStarting(shown, prefix) == \E j \in 1..Len(shown) : StartsWith(shown[j], prefix)

\* a market dispatch that has received a successful result
Formatted(call) ==
    /\ call.pc = "done"
    /\ call.name \in MarketTools
    /\ call.result # <<>>
    /\ call.result[1].scraped_ok

\* a market dispatch that has received a failed result
Failed(call) ==
    /\ call.pc = "done"
    /\ call.name \in MarketTools
    /\ call.result # <<>>
    /\ ~call.result[1].scraped_ok

\* ------------------------------------------------------------------------
\* C1

UnknownToolMessage(name) ==
    "Unknown tool: '" \o name
    \o "'. Available tools: ['get_stock_price', 'get_stock_analysis', 'scrape_url']"

\* C1: a dispatch under a name that is not registered ends at once by raising
\* the unknown-tool error, whatever the arguments; it invokes no collaborator,
\* hands no text to the transport, and its message carries the attempted name
\* and the registered names in registry order.
UnknownToolRaises ==
    \A c \in CallIds :
        (calls[c].pc # "idle" /\ calls[c].name \notin {TOOLS[i].name : i \in 1..Len(TOOLS)})
        => /\ calls[c].pc = "done"
           /\ calls[c].outcome = [kind |-> "raise", exc |-> "ValueError",
                                  text |-> UnknownToolMessage(calls[c].name)]
           /\ calls[c].invoked = <<>>
           /\ calls[c].response = <<>>

UnknownToolWitness ==
    \E c \in CallIds :
        /\ calls[c].pc = "done"
        /\ calls[c].name = "get_stock_news"
        /\ calls[c].arguments.symbol = StrArg("TCS")
        /\ calls[c].outcome.kind = "raise"

\* ------------------------------------------------------------------------
\* C2

\* the values the tools' input schemas allow for an argument
SchemaValue(a) == a.kind \in {"missing", "null", "str"}

\* C2: a dispatch under a registered name, with arguments that are absent,
\* None or any str, and with any collaborator result, ends by returning a text
\* and never by raising.
OnlyUnknownToolPropagates ==
    \A c \in CallIds :
        (/\ calls[c].pc = "done"
         /\ calls[c].name \in RegisteredNames
         /\ SchemaValue(calls[c].arguments.symbol)
         /\ SchemaValue(calls[c].arguments.url))
        => calls[c].outcome.kind = "return"

\* ------------------------------------------------------------------------
\* C3

\* C3: a market tool whose `symbol` is absent, empty or whitespace-only, and
\* scrape_url whose `url` is, ends at once by returning the fixed error text,
\* and no collaborator is invoked at any point of that dispatch.
RequiredArgumentChecked ==
    \A c \in CallIds :
        /\ (/\ calls[c].pc # "idle"
            /\ calls[c].name \in MarketTools
            /\ Blank(calls[c].arguments.symbol))
           => /\ calls[c].pc = "done"
              /\ calls[c].outcome = [kind |-> "return", exc |-> "",
                                     text |-> "Error: 'symbol' parameter is required."]
              /\ calls[c].invoked = <<>>
        /\ (/\ calls[c].pc # "idle"
            /\ calls[c].name = "scrape_url"
            /\ Blank(calls[c].arguments.url))
           => /\ calls[c].pc = "done"
              /\ calls[c].outcome = [kind |-> "return", exc |-> "",
                                     text |-> "Error: 'url' parameter is required."]
              /\ calls[c].invoked = <<>>

RequiredArgumentWitness ==
    \E c \in CallIds :
        /\ calls[c].pc = "done"
        /\ calls[c].name = "get_stock_analysis"
        /\ calls[c].arguments.symbol = StrArg(" \t\n")
        /\ calls[c].outcome.text = "Error: 'symbol' parameter is required."

\* ------------------------------------------------------------------------
\* C4

\* C4: a market dispatch with a non-blank symbol has invoked scrape_one once,
\* with the symbol trimmed and upper-cased and with both flags false for
\* get_stock_price and both true for get_stock_analysis, and nothing else;
\* this stays so after the result arrives, whatever the result.
MarketInvokedOnce ==
    \A c \in CallIds :
        (/\ calls[c].pc # "idle"
         /\ calls[c].name \in MarketTools
         /\ NonBlank(calls[c].arguments.symbol))
        => LET arg == calls[c].invoked[1].arg
               raw == calls[c].arguments.symbol.s
           IN /\ Len(calls[c].invoked) = 1
              /\ calls[c].invoked[1].fn = "scrape_one"
              /\ arg = Upper(Strip(raw))
              /\ raw = " tcs " => arg = "TCS"
              /\ raw = "\tinfy\n" => arg = "INFY"
              /\ raw = "Reliance" => arg = "RELIANCE"
              /\ calls[c].invoked[1].include_news = (calls[c].name = "get_stock_analysis")
              /\ calls[c].invoked[1].include_fundamentals
                    = (calls[c].name = "get_stock_analysis")
              /\ calls[c].pc \in {"await_market", "done"}
              /\ calls[c].pc = "done" => calls[c].result # <<>>

MarketInvokedWitness ==
    \E c \in CallIds :
        /\ Failed(calls[c])
        /\ calls[c].name = "get_stock_price"
        /\ calls[c].arguments.symbol = StrArg(" tcs ")
        /\ calls[c].invoked[1].arg = "TCS"

\* ------------------------------------------------------------------------
\* C5

\* C5: when scrape_one answers a get_stock_price dispatch with scraped_ok
\* false, the dispatch returns the one string "Could not fetch price for
\* {symbol}: {error}" with the symbol it passed to scrape_one, and has called
\* scrape_one once.
PriceFailureText ==
    \A c \in CallIds :
        (Failed(calls[c]) /\ calls[c].name = "get_stock_price")
        => /\ calls[c].outcome =
                [kind |-> "return", exc |-> "",
                 text |-> "Could not fetch price for " \o calls[c].invoked[1].arg
                          \o ": " \o calls[c].result[1].error.s]
           /\ (calls[c].invoked[1].arg = "TCS"
               /\ calls[c].result[1].error = Str("rate limited"))
              => calls[c].outcome.text = "Could not fetch price for TCS: rate limited"
           /\ ~HasLineStarting(Lines(calls[c].outcome.text), "[Source:")
           /\ Len(calls[c].invoked) = 1

PriceFailureWitness ==
    \E c \in CallIds :
        /\ Failed(calls[c])
        /\ calls[c].name = "get_stock_price"
        /\ calls[c].arguments.symbol = StrArg("Reliance")
        /\ calls[c].outcome.text = "Could not fetch price for RELIANCE: rate limited"

\* ------------------------------------------------------------------------
\* C6

\* C6 as stated: the failure text of get_stock_analysis is the failure text of
\* get_stock_price for the same symbol and error.
AnalysisFailureIsPriceText ==
    \A c \in CallIds :
        (Failed(calls[c]) /\ calls[c].name = "get_stock_analysis")
        => calls[c].outcome.text =
              "Could not fetch price for " \o calls[c].invoked[1].arg
              \o ": " \o calls[c].result[1].error.s

\* C6 as amended: the failure text of get_stock_analysis follows the same
\* pattern with its own wording, "Could not fetch analysis for {symbol}:
\* {error}", returned as a text.
AnalysisFailureText ==
    \A c \in CallIds :
        (Failed(calls[c]) /\ calls[c].name = "get_stock_analysis")
        => calls[c].outcome =
              [kind |-> "return", exc |-> "",
               text |-> "Could not fetch analysis for " \o calls[c].invoked[1].arg
                        \o ": " \o calls[c].result[1].error.s]

AnalysisFailureWitness ==
    \E c \in CallIds :
        /\ Failed(calls[c])
        /\ calls[c].name = "get_stock_analysis"
        /\ calls[c].outcome.text = "Could not fetch analysis for TCS: rate limited"

\* ------------------------------------------------------------------------
\* C7

\* C7: a scrape_url dispatch with a non-blank url has invoked the generic
\* scraper once, with the url trimmed and its case kept, and nothing else;
\* once the scraper answers, the dispatch returns its text as it is.
ScrapeUrlVerbatim ==
    \A c \in CallIds :
        (/\ calls[c].pc # "idle"
         /\ calls[c].name = "scrape_url"
         /\ NonBlank(calls[c].arguments.url))
        => LET raw == calls[c].arguments.url.s
           IN /\ Len(calls[c].invoked) = 1
              /\ calls[c].invoked[1].fn = "scrape_url"
              /\ calls[c].invoked[1].arg = Strip(raw)
              /\ raw = " https://Example.com/News?id=1 "
                    => calls[c].invoked[1].arg = "https://Example.com/News?id=1"
              /\ calls[c].pc \in {"await_scrape", "done"}
              /\ calls[c].pc = "done"
                    => /\ calls[c].scraped # <<>>
                       /\ calls[c].outcome = [kind |-> "return", exc |-> "",
                                              text |-> calls[c].scraped[1]]
                       /\ calls[c].response = <<[type |-> "text", text |-> calls[c].scraped[1]]>>

ScrapeUrlWitness ==
    \E c \in CallIds :
        /\ calls[c].pc = "done"
        /\ calls[c].name = "scrape_url"
        /\ calls[c].arguments.url = StrArg(" https://Example.com/News?id=1 ")
        /\ calls[c].outcome.text = "Error: could not fetch URL (HTTP 404)"

\* ------------------------------------------------------------------------
\* C8

\* the date a rendered news item shows
ShownDate(item) ==
    IF item.published_at.has /\ item.published_at.s # ""
    THEN Prefix(item.published_at.s, 10) ELSE "N/A"

\* what C8 says of one get_stock_analysis dispatch and its result
NewsSectionAsClaimed(call) ==
    LET items == IF call.result[1].news.has THEN call.result[1].news.items ELSE <<>>
        n == Len(items)
        m == Min(n, 5)
        shown == ReturnedLines(call)
        header == BoxRule \o " RECENT NEWS " \o BoxRule
        h == CHOOSE j \in 1..Len(shown) : shown[j] = header
    IN /\ (n > 0) <=> HasLine(shown, header)
       /\ n > 0 =>
            /\ Len(shown) = h + 2 * m + 2
            /\ shown[h + 2 * m + 1] = ""
            /\ \A i \in 1..m :
                  /\ shown[h + 2 * i - 1] = Digits(i) \o ". " \o PyStr(items[i].title)
                  /\ shown[h + 2 * i] =
                        "   " \o PyStr(items[i].publisher) \o "  |  " \o ShownDate(items[i])
                        \o "  |  " \o PyStr(items[i].link)
                  /\ ~items[i].published_at.has => ShownDate(items[i]) = "N/A"

\* C8: for every successful result handed to get_stock_analysis, the detailed
\* layout has a RECENT NEWS section iff the result has n > 0 news items, and
\* the section holds exactly the first min(n, 5) items, numbered from 1 in
\* input order, an item without a published timestamp dated "N/A".
NewsSectionShown ==
    \A c \in CallIds :
        (Formatted(calls[c]) /\ calls[c].name = "get_stock_analysis")
        => NewsSectionAsClaimed(calls[c])

\* the same for the results on which _fmt_analysis returns a layout
NewsSectionShownOnReturn ==
    \A c \in CallIds :
        (/\ Formatted(calls[c])
         /\ calls[c].name = "get_stock_analysis"
         /\ calls[c].outcome.kind = "return")
        => NewsSectionAsClaimed(calls[c])

\* a layout of a result with more news items than the section holds
NewsSectionReached ==
    \E c \in CallIds :
        /\ Formatted(calls[c])
        /\ calls[c].name = "get_stock_analysis"
        /\ calls[c].outcome.kind = "return"
        /\ Len(calls[c].result[1].news.items) = 6
        /\ HasLineStarting(ReturnedLines(calls[c]), "5. ")

\* ------------------------------------------------------------------------
\* C9

VolumeFields == {"volume", "ma_50", "ma_200"}

FundFieldSet == {FundFields[i] : i \in 1..Len(FundFields)}

\* the attributes C9 names
ZeroFields == VolumeFields \cup {"prev_close"} \cup FundFieldSet

IsZero(x) == x.has /\ x.num = 0

FundLabels ==
    {"Market Cap: ", "P/E (TTM): ", "Forward P/E: ", "EPS (TTM): ", "Book Value: ",
     "P/B Ratio: ", "Dividend Yield: ", "Beta: ", "ROE: ", "Net Margin: ", "D/E Ratio: ",
     "Current Ratio: "}

\* what the formatter of a market tool makes of a result
Rendered(name, r) == IF name = "get_stock_price" THEN _fmt_price(r) ELSE _fmt_analysis(r)

\* C9: in what a market tool makes of a successful result, each of volume,
\* MA50, MA200, previous close and the twelve fundamentals that is exactly 0
\* gives what the same result with that attribute absent gives; with volume,
\* MA50 and MA200 all absent or 0 there is no volume/MA line, and with every
\* fundamental absent or 0 there is no FUNDAMENTALS header and no
\* fundamentals line.
ZeroRenderedAsAbsent ==
    \A c \in CallIds :
        Formatted(calls[c])
        => LET r == calls[c].result[1]
               shown == ReturnedLines(calls[c])
           IN /\ \A f \in ZeroFields :
                    IsZero(r[f])
                    => calls[c].outcome = Rendered(calls[c].name, [r EXCEPT ![f] = NoNum])
              /\ (\A f \in VolumeFields : ~r[f].has \/ IsZero(r[f]))
                 => \A label \in {"Volume: ", "MA50: ", "MA200: "} :
                       ~HasLineStarting(shown, label)
              /\ (\A f \in FundFieldSet : ~r[f].has \/ IsZero(r[f]))
                 => /\ ~HasLine(shown, BoxRule \o " FUNDAMENTALS " \o BoxRule)
                    /\ \A label \in FundLabels : ~HasLineStarting(shown, label)

ZeroRenderedWitness ==
    \E c \in CallIds :
        /\ Formatted(calls[c])
        /\ calls[c].name = "get_stock_analysis"
        /\ calls[c].outcome.kind = "return"
        /\ calls[c].result[1] = FundPattern(FullResult, 6, Zero, NoNum)
        /\ HasLineStarting(ReturnedLines(calls[c]), "Volume: 1,234,567")

\* ------------------------------------------------------------------------
\* C10

\* what a dispatch comes to when it runs with nothing else in flight, given
\* its name, its arguments and what its collaborator handed back
RunAlone(call) ==
    LET started == call_tool(call.name, call.arguments, ToolRegistry)
    IN IF started.pc = "await_market" /\ call.result # <<>>
       THEN MarketResume(started, call.result[1])
       ELSE IF started.pc = "await_scrape" /\ call.scraped # <<>>
       THEN ScrapeResume(started, call.scraped[1])
       ELSE started

EachAsAlone ==
    /\ TOOLS = ToolRegistry
    /\ _market = MarketHandle
    /\ \A c \in CallIds : calls[c].pc # "idle" => calls[c] = RunAlone(calls[c])

OneCallPerStep ==
    /\ TOOLS' = TOOLS
    /\ _market' = _market
    /\ \A c, d \in CallIds : (calls'[c] # calls[c] /\ d # c) => calls'[d] = calls[d]

\* C10: with several dispatches in flight, suspended and resumed in any order,
\* every dispatch is at each moment where it would be, and ends as it would
\* end, had it run alone with its name, arguments and collaborator result;
\* a step of one dispatch changes no other dispatch, nor the registry, nor
\* the market handle.
ConcurrentDispatchesIndependent == []EachAsAlone /\ [][OneCallPerStep]_vars

\* two dispatches suspended together and resumed in the opposite order
ConcurrentWitness ==
    /\ calls[1].pc = "done"
    /\ calls[1].name = "get_stock_price"
    /\ calls[1].symbol = "TCS"
    /\ Failed(calls[1])
    /\ calls[2].pc = "await_market"
    /\ calls[2].name = "get_stock_analysis"
    /\ calls[2].symbol = "INFY"

====
